---- MODULE Spec2Model ----
(***************************************************************************)
(* Model of openTSNE/initialization.py: the initialisation schemes        *)
(* rescale, random, pca, spectral, random_circular_2d, weighted_mean and  *)
(* median.                                                                 *)
(*                                                                         *)
(* Every public function is one action.  The caller's arrays live in      *)
(* `heap` under the parameter names of the source ("X", "x", "A", "P",    *)
(* "embedding", "neighbors"); the array a call returns that is not one of *)
(* the caller's lives under "new".  `call` is the last call (function and *)
(* scalar arguments, and what the external numerical routine answered),   *)
(* `ret` its outcome, `trace` the timer and library events of that call   *)
(* in program order, `rng` the positions of the two generators that       *)
(* outlive a call, `memo` a result the caller kept for comparison.        *)
(***************************************************************************)
EXTENDS Integers, Sequences, FiniteSets, TLC

VARIABLES heap, call, ret, trace, rng, memo

vars == <<heap, call, ret, trace, rng, memo>>

(* ------------------------------ bounds -------------------------------- *)

\* Largest number of samples (rows of X, rows of P, rows of neighbors).
MaxSamples == 2

\* Largest number of neighbours per new point in median.
MaxNeighbors == 3

\* Values a generator that outlives a call (np.random's, or the caller's
\* instance) may hand out before the model stops drawing from it.
MaxDraws == 4

(* ------------------------------ numbers ------------------------------- *)

Abs(a) == IF a < 0 THEN -a ELSE a

Max2(a, b) == IF a >= b THEN a ELSE b

RECURSIVE SumSeq(_)
SumSeq(s) == IF s = <<>> THEN 0 ELSE Head(s) + SumSeq(Tail(s))

Range(s) == {s[i] : i \in DOMAIN s}

MaxOf(s) == CHOOSE m \in Range(s) : \A y \in Range(s) : y <= m

MinOf(s) == CHOOSE m \in Range(s) : \A y \in Range(s) : m <= y

\* The permutations of 1..n, as sequences.
Perms(n) == {p \in [1..n -> 1..n] : \A i, j \in 1..n : p[i] = p[j] => i = j}

(* ------------------------------ arrays -------------------------------- *)

\* A dense float array of shape <<n, d>>.  Entry (i, j) is
\*     rows[i][j] * scale.mul / (sqrt(scale.rad) * scale.den),
\* exact for every value the functions produce; scale.rad = 0 is the
\* non-finite array a division by zero leaves.  layout is "C" for a
\* C-contiguous buffer and "F" for a transposed one or a column slice.
Unit == [mul |-> 1, rad |-> 1, den |-> 1]

Dense(shape, rows, scale, layout) ==
    [shape |-> shape, rows |-> rows, scale |-> scale, layout |-> layout]

Column(v, j) == [i \in 1..Len(v.rows) |-> v.rows[i][j]]

\* The names under which the caller's arrays are held.
CallerBufs == {"X", "x", "A", "P", "embedding", "neighbors"}

\* The heap a call leaves when it raises: the caller's arrays only.
Caller(h) == [b \in CallerBufs |-> h[b]]

\* The heap a call leaves when it returns the fresh array v.
WithNew(h, v) == Caller(h) @@ ("new" :> v)

(* ------------------------------ rescale ------------------------------- *)

Scale10000 == 10000

\* np.std(x[:, 0]): the population standard deviation of column 0, v.scale
\* times sqrt(V)/n with V = n*sum(c^2) - sum(c)^2 over the stored numerators c.
std0(v) ==
    LET c == Column(v, 1)
        n == Len(c)
    IN  [of |-> v.scale, n |-> n,
         V |-> n * SumSeq([i \in 1..n |-> c[i] * c[i]]) - SumSeq(c) * SumSeq(c)]

\* x /= s * k, with s the std0 of the same array: the array's own scale
\* cancels and every entry becomes numerator * n / (sqrt(V) * k).  A zero
\* deviation, no rows or an already non-finite array leave a non-finite one.
DivideByStdTimes(v, s, k) ==
    [v EXCEPT !.scale = [mul |-> s.n,
                         rad |-> IF v.scale.rad = 0 \/ s.n = 0 THEN 0 ELSE s.V,
                         den |-> k]]

\* rescale without the copy of line 24: it always divides the argument itself.
rescale_nocopy(h, x, inplace) ==
    [heap |-> [h EXCEPT ![x] = DivideByStdTimes(h[x], std0(h[x]), Scale10000)],
     buf  |-> x]

\* rescale, lines 23-28: h is the heap, x the name of the argument.  Copies
\* first unless inplace, divides, and returns the array it divided.
rescale(h, x, inplace) ==
    LET h1  == IF inplace THEN h ELSE h @@ ("new" :> [h[x] EXCEPT !.layout = "C"])
        tgt == IF inplace THEN x ELSE "new"
    IN  [heap |-> [h1 EXCEPT ![tgt] =
                      DivideByStdTimes(h1[tgt], std0(h1[tgt]), Scale10000)],
         buf  |-> tgt]

(* -------------------------- random sources ---------------------------- *)

\* (sin, cos) of the angles the model's uniform(0, 2*pi) can return, in
\* fifths: twelve angles in increasing order with rational sine and cosine.
Angles == << <<0, 5>>, <<3, 4>>, <<4, 3>>, <<5, 0>>, <<4, -3>>, <<3, -4>>,
             <<0, -5>>, <<-3, -4>>, <<-4, -3>>, <<-5, 0>>, <<-4, 3>>, <<-3, 4>> >>

\* The raw variate a generator of the given stream returns at a position:
\* one of Len(Angles) levels, a fixed function of the stream and position.
Raw(stream, pos) == (stream * 7 + pos * 5 + stream * pos) % Len(Angles)

Seeds == {1, 2}

\* The random_state arguments: an int seed, None, or a RandomState instance.
RandomSources ==
    {[kind |-> "int", seed |-> s] : s \in Seeds}
        \cup {[kind |-> "None", seed |-> 0], [kind |-> "instance", seed |-> 0]}

\* The streams of np.random's generator and of the caller's instance.
StreamOf == [global |-> 0, inst |-> 3]

\* A check_random_state that hands an int seed np.random's generator too.
check_random_state_shared(random_state, r) ==
    IF random_state.kind = "instance"
    THEN [id |-> "inst", stream |-> StreamOf.inst, pos |-> r.inst]
    ELSE [id |-> "global", stream |-> StreamOf.global, pos |-> r.global]

\* sklearn.utils.check_random_state as the docstrings (lines 42-46) give it:
\* an int seeds a new RandomState, None is the RandomState instance used by
\* np.random, an instance is used as it is.  r is the persistent state.
check_random_state(random_state, r) ==
    CASE random_state.kind = "int" ->
             [id |-> "fresh", stream |-> random_state.seed, pos |-> 0]
      [] random_state.kind = "None" ->
             [id |-> "global", stream |-> StreamOf.global, pos |-> r.global]
      [] random_state.kind = "instance" ->
             [id |-> "inst", stream |-> StreamOf.inst, pos |-> r.inst]

\* An Advance under which every draw moves both persistent generators on.
AdvanceAll(r, g, m) == [global |-> r.global + m, inst |-> r.inst + m]

\* The persistent state after generator g has handed out m more values: a
\* generator made for the call is dropped with it.
Advance(r, g, m) == IF g.id = "fresh" THEN r ELSE [r EXCEPT ![g.id] = @ + m]

\* Whether the model lets g hand out m more values.
CanDraw(g, m) == g.id = "fresh" \/ g.pos + m <= MaxDraws

(* ------------------------------ random -------------------------------- *)

NormalDen == 10000

\* random_state.normal(0, 1e-4, (n, k)), line 56: n*k variates in row-major
\* order, each a standard deviate (the raw level, centred) over 10000.
normal(g, n, k) ==
    Dense(<<n, k>>,
          [i \in 1..n |-> [j \in 1..k |->
              Raw(g.stream, g.pos + (i - 1) * k + (j - 1)) - Len(Angles) \div 2]],
          [mul |-> 1, rad |-> 1, den |-> NormalDen], "C")

\* np.ascontiguousarray: the same array when it is C-contiguous (an array
\* with at most one row is), a C-ordered copy otherwise.
ascontiguousarray(v) == [v EXCEPT !.layout = "C"]

(* ------------------------- random_circular_2d ------------------------- *)

\* The radius without the abs of line 188.
Radius_signed(embedding) ==
    Max2(embedding.box_x_lower_bounds[1],
         embedding.box_x_lower_bounds[Len(embedding.box_x_lower_bounds)])

\* Lines 186-188.
Radius(embedding) ==
    LET lower_limit == embedding.box_x_lower_bounds[1]
        upper_limit == embedding.box_x_lower_bounds[Len(embedding.box_x_lower_bounds)]
    IN  Max2(Abs(lower_limit), Abs(upper_limit))

\* The squares of the coordinates are kept over this common denominator.
SqDen == 25 * Len(Angles)

\* r*r for the r of lines 190-193.  Filled: uniform(0, radius**2) ** 0.5,
\* whose square is the variate itself, radius^2 * level / Len(Angles).
\* Boundary: radius.  Both over SqDen.
RSquared(g, i, radius, only_boundary) ==
    IF only_boundary
    THEN radius * radius * SqDen
    ELSE radius * radius * Raw(g.stream, g.pos + i - 1) * 25

Sign(a) == IF a < 0 THEN -1 ELSE IF a = 0 THEN 0 ELSE 1

\* Line 195: row i is (r*sin(phi), r*cos(phi)).  A coordinate is kept as its
\* sign and its square over SqDen, which is exact whatever r is.
CircularRows(g, n, radius, only_boundary) ==
    LET first == IF only_boundary THEN 0 ELSE n   \* phi is drawn after r
    IN  [i \in 1..n |->
            LET r2  == RSquared(g, i, radius, only_boundary)
                a   == Angles[Raw(g.stream, g.pos + first + i - 1) + 1]
            IN  << [sgn |-> Sign(r2) * Sign(a[1]), sq |-> (r2 * a[1] * a[1]) \div 25],
                   [sgn |-> Sign(r2) * Sign(a[2]), sq |-> (r2 * a[2] * a[2]) \div 25] >>]

\* How many variates the call draws.
CircularDraws(n, only_boundary) == IF only_boundary THEN n ELSE 2 * n

\* Lines 183-196: the array the call returns.  The stacked array is the
\* transpose of a (2, n) array, so it is copied unless it has at most one row.
random_circular_2d(n, embedding, g, only_boundary) ==
    ascontiguousarray(
        [shape |-> <<n, 2>>,
         rows  |-> CircularRows(g, n, Radius(embedding), only_boundary),
         sqden |-> SqDen,
         layout |-> "F"])

(* -------------------------------- pca --------------------------------- *)

Components == {1, 2}

\* What PCA(...).fit_transform(X) may answer: the coefficients of the
\* projection's columns, by decreasing variance (<<0, 0>>: all samples equal).
ProjCoeffs == {<<2, 1>>, <<3, -1>>, <<0, 0>>}

\* The projection: mean-centred columns, column j the centred ramp
\* 2i - (n + 1) times the j-th coefficient.
fit_transform(X, k, coeffs) ==
    Dense(<<X.shape[1], k>>,
          [i \in 1..X.shape[1] |->
              [j \in 1..k |-> coeffs[j] * (2 * i - (X.shape[1] + 1))]],
          Unit, "C")

Ok(buf) == [status |-> "ok", err |-> "", buf |-> buf]

Raised(err) == [status |-> "error", err |-> err, buf |-> "none"]

\* pca, lines 87-98.  ext is the decomposition's answer: whether it raised
\* for a reason of its own, and the projection it found.  It also raises when
\* n_components exceeds min(n_samples, n_features).
pca(h, k, ext) ==
    IF ext.fails \/ k > h["X"].shape[1] \/ k > h["X"].shape[2]
    THEN [heap |-> Caller(h), ret |-> Raised("ValueError"),
          trace |-> <<"enter", "fit_transform">>]
    ELSE LET r == rescale(WithNew(h, fit_transform(h["X"], k, ext.coeffs)), "new", TRUE)
         IN  [heap |-> WithNew(h, ascontiguousarray(r.heap[r.buf])),
              ret |-> Ok("new"), trace |-> <<"enter", "fit_transform", "exit">>]

(* ------------------------------ spectral ------------------------------ *)

\* The eigenvector the solver pairs with the i-th eigenvalue of a 4-node
\* graph's spectrum: four mutually orthogonal vectors, the first the trivial
\* constant one.
EigVecs == << <<1, 1, 1, 1>>, <<1, 1, -1, -1>>, <<1, -1, 1, -1>>, <<1, -1, -1, 1>> >>

\* The increasing sequence of the elements of a set of indices.
RECURSIVE Ascending(_)
Ascending(S) ==
    IF S = {} THEN <<>>
    ELSE LET m == CHOOSE x \in S : \A y \in S : x <= y
         IN  <<m>> \o Ascending(S \ {m})

\* which="LM": the index sets of k1 eigenvalues of largest magnitude (more
\* than one when magnitudes tie).
LargestMagnitude(spectrum, k1) ==
    {S \in SUBSET DOMAIN spectrum :
        /\ Cardinality(S) = k1
        /\ \A i \in S, j \in DOMAIN spectrum \ S : Abs(spectrum[i]) >= Abs(spectrum[j])}

\* sp.linalg.eigsh, lines 145-147, for the picked index set: the eigenvalues
\* in the solver's order and, column by column, their eigenvectors.
eigsh(A, picked) ==
    LET idx == Ascending(picked)
    IN  [eigvals |-> [j \in DOMAIN idx |-> A.spectrum[idx[j]]],
         eigvecs |-> [j \in DOMAIN idx |-> EigVecs[idx[j]]]]

\* np.argsort(eigvals) without the reversal of line 149.
argsort_ascending(eigvals) ==
    {p \in Perms(Len(eigvals)) :
        \A i, j \in DOMAIN p : i < j => eigvals[p[i]] <= eigvals[p[j]]}

\* np.argsort(eigvals)[::-1], line 149: every index order that lists the
\* eigenvalues in decreasing order (argsort does not fix the order of ties).
argsort_reversed(eigvals) ==
    {p \in Perms(Len(eigvals)) :
        \A i, j \in DOMAIN p : i < j => eigvals[p[i]] >= eigvals[p[j]]}

\* eigvecs[:, order], line 150.
TakeColumns(eigvecs, order) == [j \in DOMAIN order |-> eigvecs[order[j]]]

\* eigvecs *= eigvals, line 153: broadcasting multiplies column j by eigvals[j].
TimesEq(eigvecs, eigvals) ==
    [j \in DOMAIN eigvecs |-> [i \in DOMAIN eigvecs[j] |-> eigvecs[j][i] * eigvals[j]]]

\* eigvecs[:, 1:], line 156.
DropLeading(eigvecs) == SubSeq(eigvecs, 2, Len(eigvecs))

\* The (n, k) array whose columns are cols, a column slice of a larger buffer.
FromColumns(n, cols) ==
    Dense(<<n, Len(cols)>>,
          [i \in 1..n |-> [j \in DOMAIN cols |-> cols[j][i]]], Unit, "F")

\* The shape checks without the squareness check of lines 134-135.
SpectralShapeError_ndim_only(A) ==
    IF A.ndim # 2 THEN "ValueError" ELSE ""

\* Lines 132-135: the error the shape checks raise, "" when they pass.
SpectralShapeError(A) ==
    IF A.ndim # 2 THEN "ValueError"
    ELSE IF A.shape[1] # A.shape[2] THEN "ValueError"
    ELSE ""

\* spectral, lines 132-162.  ext is the solver's answer: whether it converged,
\* the eigenpairs it picked, and the order argsort gave.  The solver also
\* raises when asked for as many eigenpairs as the matrix has rows.
spectral(h, n_components, ext) ==
    LET A == h["A"]
        k == n_components + 1
    IN  IF SpectralShapeError(A) # ""
        THEN [heap |-> Caller(h), ret |-> Raised(SpectralShapeError(A)), trace |-> <<>>]
        ELSE IF k >= A.shape[1]
        THEN [heap |-> Caller(h), ret |-> Raised("TypeError"),
              trace |-> <<"enter", "eigsh">>]
        ELSE IF ~ext.converged
        THEN [heap |-> Caller(h), ret |-> Raised("ArpackNoConvergence"),
              trace |-> <<"enter", "eigsh">>]
        ELSE LET e        == eigsh(A, ext.picked)
                 sorted   == TakeColumns(e.eigvecs, ext.order)
                 scaled   == TimesEq(sorted, e.eigvals)
                 embedding == FromColumns(A.shape[1], DropLeading(scaled))
                 r        == rescale(WithNew(h, embedding), "new", TRUE)
             IN  [heap |-> WithNew(h, r.heap[r.buf]), ret |-> Ok("new"),
                  trace |-> <<"enter", "eigsh", "exit">>]

(* --------------------------- weighted_mean ---------------------------- *)

\* a[lo:hi] for 0-based lo <= hi within the sequence.
Slice(a, lo, hi) == SubSeq(a, lo + 1, hi)

\* np.average(a, axis=0, weights=w) on arrays [shape, data]: a of one or two
\* dimensions, w of none or one.  Weights of another shape than a must be
\* one-dimensional and as long as a's first axis.  The result is the vector
\* (the number, for 1-D a) num / den.
average(a, w) ==
    IF a.shape # w.shape /\ Len(w.shape) # 1
    THEN [err |-> "TypeError", num |-> <<>>, den |-> 0]
    ELSE IF w.shape[1] # a.shape[1]
    THEN [err |-> "ValueError", num |-> <<>>, den |-> 0]
    ELSE IF SumSeq(w.data) = 0
    THEN [err |-> "ZeroDivisionError", num |-> <<>>, den |-> 0]
    ELSE IF Len(a.shape) = 1
    THEN [err |-> "", den |-> SumSeq(w.data),
          num |-> << SumSeq([j \in DOMAIN a.data |-> a.data[j] * w.data[j]]) >>]
    ELSE [err |-> "", den |-> SumSeq(w.data),
          num |-> [c \in 1..a.shape[2] |->
                     SumSeq([j \in DOMAIN a.data |-> a.data[j][c] * w.data[j]])]]

\* One pass of the loop body, lines 228-233, for the 0-based i.
WeightedMeanRow(embedding, P, i) ==
    LET neighbors_i == Slice(P.indices, P.indptr[i + 1], P.indptr[i + 2])
        sim_i       == Slice(P.data, P.indptr[i + 1], P.indptr[i + 2])
    IN  IF i >= Len(neighbors_i)
        THEN [err |-> "IndexError", num |-> <<>>, den |-> 0]
        ELSE average([shape |-> <<embedding.shape[2]>>,
                      data |-> embedding.rows[neighbors_i[i + 1] + 1]],
                     [shape |-> <<>>, data |-> sim_i[i + 1]])

\* The loop of lines 227-233 from row i on: the rows computed, the events,
\* and the error that ended it ("" when it ran to the end).
RECURSIVE WeightedMeanLoop(_, _, _, _)
WeightedMeanLoop(embedding, P, i, n_samples) ==
    IF i >= n_samples THEN [rows |-> <<>>, events |-> <<>>, err |-> ""]
    ELSE LET row == WeightedMeanRow(embedding, P, i)
         IN  IF row.err # ""
             THEN [rows |-> <<>>, events |-> <<"row">>, err |-> row.err]
             ELSE LET rest == WeightedMeanLoop(embedding, P, i + 1, n_samples)
                  IN  [rows |-> <<[num |-> row.num, den |-> row.den]>> \o rest.rows,
                       events |-> <<"row">> \o rest.events,
                       err |-> rest.err]

\* Line 223: the assertion, "" when it passes.
WeightedMeanShapeError(X, embedding, P) ==
    IF P.shape[1] = X.shape[1] /\ P.shape[2] = embedding.shape[1]
    THEN "" ELSE "AssertionError"

\* weighted_mean, lines 221-235.  The with statement exits the timer on
\* every path out of its block.  A returned row i is rows[i].num / rows[i].den
\* in the reference embedding's scale.
weighted_mean(h) ==
    LET X == h["X"]
        embedding == h["embedding"]
        P == h["P"]
    IN  IF WeightedMeanShapeError(X, embedding, P) # ""
        THEN [heap |-> Caller(h), trace |-> <<>>,
              ret |-> Raised(WeightedMeanShapeError(X, embedding, P))]
        ELSE LET l == WeightedMeanLoop(embedding, P, 0, X.shape[1])
             IN  IF l.err # ""
                 THEN [heap |-> Caller(h), ret |-> Raised(l.err),
                       trace |-> <<"enter">> \o l.events \o <<"exit">>]
                 ELSE [heap |-> WithNew(h, Dense(<<X.shape[1], embedding.shape[2]>>,
                                                 l.rows, embedding.scale, "C")),
                       ret |-> Ok("new"),
                       trace |-> <<"enter">> \o l.events \o <<"exit">>]

(* ------------------------------- median ------------------------------- *)

\* A median that takes the upper middle value of an even number of values.
TwiceMedian_upper(vals) ==
    2 * SortSeq(vals, LAMBDA a, b : a < b)[Len(vals) \div 2 + 1]

\* Twice np.median of a non-empty sequence: twice the middle value, or the
\* sum of the two middle values.
TwiceMedian(vals) ==
    LET s == SortSeq(vals, LAMBDA a, b : a < b)
        m == Len(vals)
    IN  IF m % 2 = 1 THEN 2 * s[(m + 1) \div 2]
        ELSE s[m \div 2] + s[m \div 2 + 1]

\* median, lines 253-255.  Entry (i, c) of the result is the median over j of
\* embedding[neighbors[i][j]][c]; the rows hold twice the median and the
\* scale's denominator is doubled.  An index outside the embedding raises
\* inside the with block.
median(h) ==
    LET embedding == h["embedding"]
        neighbors == h["neighbors"]
        n == neighbors.shape[1]
        m == neighbors.shape[2]
        R == embedding.shape[1]
    IN  IF \E i \in 1..n, j \in 1..m :
               neighbors.rows[i][j] >= R \/ neighbors.rows[i][j] < -R
        THEN [heap |-> Caller(h), ret |-> Raised("IndexError"),
              trace |-> <<"enter", "exit">>]
        ELSE [heap |-> WithNew(h, ascontiguousarray(
                  Dense(<<n, embedding.shape[2]>>,
                        [i \in 1..n |-> [c \in 1..embedding.shape[2] |->
                            TwiceMedian([j \in 1..m |->
                                embedding.rows[(neighbors.rows[i][j] % R) + 1][c]])]],
                        [embedding.scale EXCEPT !.den = 2 * @], "C"))),
              ret |-> Ok("new"), trace |-> <<"enter", "exit">>]

(* ------------------------------- inputs ------------------------------- *)

\* Data matrices of 0..MaxSamples samples and two features.
Xs == {Dense(<<n, 2>>, [i \in 1..n |-> <<i, 3 - 2 * i>>], Unit, "C") : n \in 0..MaxSamples}

DefaultX == Dense(<<1, 2>>, << <<1, 1>> >>, Unit, "C")

\* Arrays handed to rescale: ordinary ones, one already rescaled, and one
\* whose first column does not vary.
xs == {Dense(<<2, 2>>, << <<1, 2>>, <<3, 0>> >>, Unit, "C"),
       Dense(<<3, 2>>, << <<0, 1>>, <<4, -1>>, <<1, 1>> >>, Unit, "C"),
       Dense(<<3, 1>>, << <<2>>, <<2>>, <<2>> >>, Unit, "C")}

\* Reference embeddings: three points in two dimensions, with the bounds of
\* the interpolation grid along the first axis (ascending, first the lower
\* and last the upper extent).
RefRows == { << <<0, 5>>, <<2, -1>>, <<7, 3>> >>, << <<-3, 1>>, <<-3, 4>>, <<1, 1>> >> }

BoxBounds == { <<-3, -1, 1>>, <<-1, 0, 1, 2>>, <<0, 0>>, <<1, 2, 4>>, <<-4, -3>> }

Defaultx == Dense(<<2, 2>>, << <<1, 2>>, <<3, 0>> >>, Unit, "C")

RefEmbedding(rows, bounds) ==
    [shape |-> <<Len(rows), 2>>, rows |-> rows, scale |-> Unit, layout |-> "C",
     box_x_lower_bounds |-> bounds]

DefaultEmbedding == RefEmbedding(<< <<0, 5>>, <<2, -1>>, <<7, 3>> >>, <<-3, -1, 1>>)

\* Adjacency arrays.  The contents are represented by what the solver finds
\* in them: spectrum is the eigenvalues (in halves) it can return, in the
\* order it returns them.
EigVals == {-1, 1, 2}

Graph(ndim, shape, spectrum) == [ndim |-> ndim, shape |-> shape, spectrum |-> spectrum]

BadAs == {Graph(1, <<4>>, <<>>), Graph(2, <<5, 3>>, <<>>), Graph(3, <<4, 4, 4>>, <<>>)}

GoodAs == {Graph(2, <<4, 4>>, s) : s \in [1..3 -> EigVals]}
              \cup {Graph(2, <<2, 2>>, <<2, -2>>)}

DefaultA == Graph(2, <<4, 4>>, <<1, 2, -1>>)

\* A CSR matrix with the given rows, each a sequence of <<column, weight>>.
RECURSIVE Offsets(_, _)
Offsets(rowlist, from) ==
    IF rowlist = <<>> THEN <<from>>
    ELSE <<from>> \o Offsets(Tail(rowlist), from + Len(Head(rowlist)))

RECURSIVE Flatten(_)
Flatten(rowlist) ==
    IF rowlist = <<>> THEN <<>> ELSE Head(rowlist) \o Flatten(Tail(rowlist))

CSR(rowlist, ncols) ==
    [shape   |-> <<Len(rowlist), ncols>>,
     indptr  |-> Offsets(rowlist, 0),
     indices |-> [e \in DOMAIN Flatten(rowlist) |-> Flatten(rowlist)[e][1]],
     data    |-> [e \in DOMAIN Flatten(rowlist) |-> Flatten(rowlist)[e][2]]]

SparseRows == { <<>>, << <<0, 1>> >>, << <<1, 1>> >>, << <<2, 1>> >>,
                << <<0, 1>>, <<2, 1>> >>, << <<1, 1>>, <<2, 3>> >> }

Ps == {CSR(rl, nc) : rl \in UNION {[1..pn -> SparseRows] : pn \in 0..MaxSamples},
                     nc \in {3, 4}}

DefaultP == CSR(<< << <<1, 1>> >> >>, 3)

\* Neighbour index arrays: n rows of m 0-based indices into a three-point
\* embedding; the first row is any, row i is the first moved on by i - 1.
IndexArray(n, m, first) ==
    [shape |-> <<n, m>>,
     rows  |-> [i \in 1..n |-> [j \in 1..m |-> (first[j] + i - 1) % 3]]]

NeighborArrays ==
    UNION {{IndexArray(n, m, first) : n \in 0..MaxSamples, first \in [1..m -> 0..2]} :
           m \in 1..MaxNeighbors}

DefaultNeighbors == IndexArray(2, 2, <<0, 2>>)

\* An index array with an index past the end of the embedding.
BadNeighbors == [shape |-> <<1, 2>>, rows |-> << <<0, 3>> >>]

(* ------------------------------- state -------------------------------- *)

NoArgs == [n_components |-> 0, random_state |-> [kind |-> "None", seed |-> 0],
           inplace |-> FALSE, only_boundary |-> FALSE]

NoExt == [fails |-> FALSE, coeffs |-> <<>>, converged |-> FALSE,
          picked |-> {}, order |-> <<>>]

NoMemo == [set |-> FALSE, args |-> NoArgs, out |-> <<>>, at |-> 0]

\* The state in which the caller holds the given arrays and has called nothing.
Holding(X, x, A, P, embedding, neighbors) ==
    /\ heap = [b \in CallerBufs |->
                 CASE b = "X" -> X [] b = "x" -> x [] b = "A" -> A
                   [] b = "P" -> P [] b = "embedding" -> embedding
                   [] b = "neighbors" -> neighbors]
    /\ call = [op |-> "none", args |-> NoArgs, ext |-> NoExt]
    /\ ret = [status |-> "none", err |-> "", buf |-> "none"]
    /\ trace = <<>>
    /\ rng = [global |-> 0, inst |-> 0]
    /\ memo = NoMemo

(* ------------------------------ actions ------------------------------- *)

Rescale ==
    \E inplace \in BOOLEAN :
        LET r == rescale(Caller(heap), "x", inplace)
        IN  /\ heap' = r.heap
            /\ call' = [op |-> "rescale", args |-> [NoArgs EXCEPT !.inplace = inplace],
                        ext |-> NoExt]
            /\ ret' = Ok(r.buf)
            /\ trace' = <<>>
            /\ UNCHANGED <<rng, memo>>

Random ==
    \E n_components \in Components, random_state \in RandomSources :
        LET g == check_random_state(random_state, rng)
            n == heap["X"].shape[1]
        IN  /\ CanDraw(g, n * n_components)
            /\ heap' = WithNew(heap, ascontiguousarray(normal(g, n, n_components)))
            /\ rng' = Advance(rng, g, n * n_components)
            /\ call' = [op |-> "random",
                        args |-> [NoArgs EXCEPT !.n_components = n_components,
                                                !.random_state = random_state],
                        ext |-> NoExt]
            /\ ret' = Ok("new")
            /\ trace' = <<>>
            /\ UNCHANGED memo

Pca ==
    \E n_components \in Components, fails \in BOOLEAN, coeffs \in ProjCoeffs :
        LET ext == [NoExt EXCEPT !.fails = fails, !.coeffs = coeffs]
            r == pca(heap, n_components, ext)
        IN  /\ heap' = r.heap
            /\ ret' = r.ret
            /\ trace' = r.trace
            /\ call' = [op |-> "pca", args |-> [NoArgs EXCEPT !.n_components = n_components],
                        ext |-> ext]
            /\ UNCHANGED <<rng, memo>>

\* The answers the solver and argsort can give for A and k eigenpairs.
SolverAnswers(A, k) ==
    IF SpectralShapeError(A) # "" \/ k >= A.shape[1]
    THEN {NoExt}
    ELSE {NoExt} \cup
         UNION {{[NoExt EXCEPT !.converged = TRUE, !.picked = S, !.order = p] :
                     p \in argsort_reversed(eigsh(A, S).eigvals)} :
                S \in LargestMagnitude(A.spectrum, k)}

Spectral ==
    \E n_components \in Components :
        \E ext \in SolverAnswers(heap["A"], n_components + 1) :
            LET r == spectral(heap, n_components, ext)
            IN  /\ heap' = r.heap
                /\ ret' = r.ret
                /\ trace' = r.trace
                /\ call' = [op |-> "spectral",
                            args |-> [NoArgs EXCEPT !.n_components = n_components],
                            ext |-> ext]
                /\ UNCHANGED <<rng, memo>>

RandomCircular2d ==
    \E random_state \in RandomSources, only_boundary \in BOOLEAN :
        LET g == check_random_state(random_state, rng)
            n == heap["X"].shape[1]
        IN  /\ CanDraw(g, CircularDraws(n, only_boundary))
            /\ heap' = WithNew(heap, random_circular_2d(n, heap["embedding"], g, only_boundary))
            /\ rng' = Advance(rng, g, CircularDraws(n, only_boundary))
            /\ call' = [op |-> "random_circular_2d",
                        args |-> [NoArgs EXCEPT !.random_state = random_state,
                                                !.only_boundary = only_boundary],
                        ext |-> NoExt]
            /\ ret' = Ok("new")
            /\ trace' = <<>>
            /\ UNCHANGED memo

WeightedMean ==
    LET r == weighted_mean(heap)
    IN  /\ heap' = r.heap
        /\ ret' = r.ret
        /\ trace' = r.trace
        /\ call' = [op |-> "weighted_mean", args |-> NoArgs, ext |-> NoExt]
        /\ UNCHANGED <<rng, memo>>

Median ==
    LET r == median(heap)
    IN  /\ heap' = r.heap
        /\ ret' = r.ret
        /\ trace' = r.trace
        /\ call' = [op |-> "median", args |-> NoArgs, ext |-> NoExt]
        /\ UNCHANGED <<rng, memo>>

\* The caller keeps the result of a seeded call to random, with the call and
\* with how far np.random's generator had got.
Remember ==
    /\ call.op = "random"
    /\ call.args.random_state.kind = "int"
    /\ memo' = [set |-> TRUE, args |-> call.args, out |-> heap["new"],
                at |-> rng.global]
    /\ UNCHANGED <<heap, call, ret, trace, rng>>

(* --------------------------- specifications --------------------------- *)

\* Every function; the caller holds the default arrays but for one kind,
\* of which it holds any of a few.
Init ==
    \/ \E X \in Xs :
          Holding(X, Defaultx, DefaultA, DefaultP, DefaultEmbedding, DefaultNeighbors)
    \/ \E x \in xs :
          Holding(DefaultX, x, DefaultA, DefaultP, DefaultEmbedding, DefaultNeighbors)
    \/ \E A \in BadAs \cup {Graph(2, <<2, 2>>, <<2, -2>>)} :
          Holding(DefaultX, Defaultx, A, DefaultP, DefaultEmbedding, DefaultNeighbors)
    \/ \E P \in {CSR(<< <<>>, << <<0, 1>>, <<1, 2>> >> >>, 3), CSR(<< << <<0, 1>> >> >>, 4)} :
          Holding(DefaultX, Defaultx, DefaultA, P, DefaultEmbedding, DefaultNeighbors)
    \/ Holding(DefaultX, Defaultx, DefaultA, DefaultP, DefaultEmbedding, BadNeighbors)

Next ==
    \/ Rescale
    \/ Random
    \/ Pca
    \/ Spectral
    \/ RandomCircular2d
    \/ WeightedMean
    \/ Median

Spec == Init /\ [][Next]_vars

\* The two functions that draw random numbers, and a caller that keeps results.
InitRandom ==
    \E X \in Xs :
        Holding(X, Defaultx, DefaultA, DefaultP, DefaultEmbedding, DefaultNeighbors)

NextRandom ==
    \/ Random
    \/ RandomCircular2d
    \/ Remember

SpecRandom == InitRandom /\ [][NextRandom]_vars

\* random_circular_2d for every extent of the reference embedding.
InitCircular ==
    \E X \in Xs, bounds \in BoxBounds :
        Holding(X, Defaultx, DefaultA, DefaultP,
                RefEmbedding(DefaultEmbedding.rows, bounds), DefaultNeighbors)

NextCircular == RandomCircular2d

SpecCircular == InitCircular /\ [][NextCircular]_vars

\* spectral on every adjacency array.
InitSpectral ==
    \E A \in BadAs \cup GoodAs :
        Holding(DefaultX, Defaultx, A, DefaultP, DefaultEmbedding, DefaultNeighbors)

NextSpectral == Spectral

SpecSpectral == InitSpectral /\ [][NextSpectral]_vars

\* weighted_mean on every similarity matrix.
InitWeightedMean ==
    \E X \in Xs, P \in Ps, rows \in RefRows :
        Holding(X, Defaultx, DefaultA, P, RefEmbedding(rows, <<-3, -1, 1>>),
                DefaultNeighbors)

NextWeightedMean == WeightedMean

SpecWeightedMean == InitWeightedMean /\ [][NextWeightedMean]_vars

\* median on every neighbour array.
InitMedian ==
    \E neighbors \in NeighborArrays, rows \in RefRows :
        Holding(DefaultX, Defaultx, DefaultA, DefaultP,
                RefEmbedding(rows, <<-3, -1, 1>>), neighbors)

NextMedian == Median

SpecMedian == InitMedian /\ [][NextMedian]_vars

(* ------------------------------- claims ------------------------------- *)

Count(events, e) == Cardinality({i \in DOMAIN events : events[i] = e})

\* Row i (0-based) of the similarity matrix: its column indices and weights.
StoredColumns(P, i) == Slice(P.indices, P.indptr[i + 1], P.indptr[i + 2])

StoredWeights(P, i) == Slice(P.data, P.indptr[i + 1], P.indptr[i + 2])

\* The weighted average of the reference rows at all stored columns of row i.
AverageOfAllNeighbors(embedding, P, i) ==
    average([shape |-> <<Len(StoredColumns(P, i)), embedding.shape[2]>>,
             data  |-> [j \in DOMAIN StoredColumns(P, i) |->
                           embedding.rows[StoredColumns(P, i)[j] + 1]]],
            [shape |-> <<Len(StoredColumns(P, i))>>, data |-> StoredWeights(P, i)])

\* C1: weighted_mean, called with matching shapes and a similarity matrix in
\* which every row stores at least one entry, returns an array whose row i is
\* the weighted average of the reference rows at all columns stored in row i
\* of P, weighted by the stored values.
C1_WeightedMeanAveragesAllNeighbors ==
    (/\ call.op = "weighted_mean"
     /\ WeightedMeanShapeError(heap["X"], heap["embedding"], heap["P"]) = ""
     /\ \A i \in 0..(heap["X"].shape[1] - 1) : StoredColumns(heap["P"], i) # <<>>)
    => /\ ret.status = "ok"
       /\ \A i \in 0..(heap["X"].shape[1] - 1) :
            LET want == AverageOfAllNeighbors(heap["embedding"], heap["P"], i)
                got  == heap["new"].rows[i + 1]
            IN  \A c \in DOMAIN want.num : got.num[c] * want.den = want.num[c] * got.den

\* C2: in the array spectral returns, every column is its eigenvector times
\* the eigenvalue the solver paired with that eigenvector, the columns being
\* those of the eigenpairs after the first in some decreasing order.
C2_ColumnsScaledByOwnEigenvalue ==
    (call.op = "spectral" /\ ret.status = "ok")
    => LET e == eigsh(heap["A"], call.ext.picked)
       IN  \E p \in Perms(Len(e.eigvals)) :
               /\ \A i, j \in DOMAIN p : i < j => e.eigvals[p[i]] >= e.eigvals[p[j]]
               /\ \A j \in 1..call.args.n_components :
                    Column(heap["new"], j) =
                        [i \in 1..heap["A"].shape[1] |->
                            e.eigvals[p[j + 1]] * e.eigvecs[p[j + 1]][i]]

\* Whether col is a non-zero multiple of vec.
Proportional(col, vec) ==
    \E c \in (-4..4) \ {0} : col = [i \in DOMAIN vec |-> c * vec[i]]

\* C3: the array spectral returns for a square adjacency matrix has
\* n_components columns; ordering the solver's eigenpairs by decreasing
\* eigenvalue, the pair left out is the first, whose eigenvalue is the
\* largest, and column j is (a multiple of) the eigenvector of pair j + 1.
C3_SpectralDropsLargest ==
    (call.op = "spectral" /\ ret.status = "ok")
    => LET e == eigsh(heap["A"], call.ext.picked)
           k == call.args.n_components
       IN  /\ heap["new"].shape = <<heap["A"].shape[1], k>>
           /\ \A i \in DOMAIN heap["new"].rows : Len(heap["new"].rows[i]) = k
           /\ Len(e.eigvals) = k + 1
           /\ \E p \in Perms(k + 1) :
                 /\ \A i, j \in DOMAIN p : i < j => e.eigvals[p[i]] >= e.eigvals[p[j]]
                 /\ e.eigvals[p[1]] = MaxOf(e.eigvals)
                 /\ \A j \in 1..k : Proportional(Column(heap["new"], j), e.eigvecs[p[j + 1]])
                 /\ \A j \in 1..k : ~Proportional(Column(heap["new"], j), e.eigvecs[p[1]])

\* A state in which spectral returned two columns for eigenvalues the solver
\* gave in neither increasing nor decreasing order.
C3_Witness ==
    /\ call.op = "spectral"
    /\ ret.status = "ok"
    /\ call.args.n_components = 2
    /\ LET e == eigsh(heap["A"], call.ext.picked)
       IN  e.eigvals[1] < e.eigvals[2] /\ e.eigvals[3] < e.eigvals[1]

\* C4: spectral on an adjacency array that is not two-dimensional or not
\* square raises ValueError, and weighted_mean on a similarity matrix whose
\* shape does not match raises AssertionError, in both cases before the timer
\* is entered, before the solver runs or a row is computed, and with no
\* array returned.
C4_ShapeErrorsFailFirst ==
    /\ (/\ call.op = "spectral"
        /\ (heap["A"].ndim # 2 \/ heap["A"].shape[1] # heap["A"].shape[2]))
       => /\ ret = Raised("ValueError")
          /\ trace = <<>>
          /\ DOMAIN heap = CallerBufs
    /\ (/\ call.op = "weighted_mean"
        /\ (\/ heap["P"].shape[1] # heap["X"].shape[1]
            \/ heap["P"].shape[2] # heap["embedding"].shape[1]))
       => /\ ret = Raised("AssertionError")
          /\ trace = <<>>
          /\ DOMAIN heap = CallerBufs

\* A state in which spectral was called on a 5x3 matrix.
C4_Witness ==
    /\ call.op = "spectral"
    /\ heap["A"].ndim = 2
    /\ heap["A"].shape = <<5, 3>>
    /\ ret.status = "error"

\* C5: a call of random with an int seed returns the array an earlier call
\* with the same seed, sample count and n_components returned, whatever was
\* called in between.
C5_SeededRandomRepeats ==
    (/\ call.op = "random"
     /\ call.args.random_state.kind = "int"
     /\ memo.set
     /\ memo.args = call.args
     /\ memo.out.shape[1] = heap["X"].shape[1])
    => heap["new"] = memo.out

\* A state in which a seeded call repeats a remembered one after np.random's
\* generator and the caller's instance have been drawn from.
C5_Witness ==
    /\ call.op = "random"
    /\ call.args.random_state.kind = "int"
    /\ memo.set
    /\ memo.args = call.args
    /\ heap["X"].shape[1] >= 1
    /\ memo.at < rng.global
    /\ rng.inst > 0

\* A step that is a call of one of the two functions that draw.
DrawingCall ==
    /\ call'.op \in {"random", "random_circular_2d"}
    /\ memo' = memo

\* The variates the call of the step draws.
DrawsOfCall ==
    IF call'.op = "random"
    THEN heap["X"].shape[1] * call'.args.n_components
    ELSE CircularDraws(heap["X"].shape[1], call'.args.only_boundary)

\* C6 as stated: a call of random or random_circular_2d given an int seed or
\* None leaves the state of every generator as it found it.
C6_SeedOrNoneLeavesNoState ==
    [][(DrawingCall /\ call'.args.random_state.kind \in {"int", "None"})
          => rng' = rng]_vars

\* C6 as amended: a call given an int seed leaves every generator as it found
\* it and returns what a generator new for the call gives; a call given None
\* draws from np.random's generator and moves it on by what it drew, leaving
\* the caller's instance alone; a call given an instance moves that instance
\* on and leaves np.random's alone.
C6_OnlySeedIsFresh ==
    [][DrawingCall =>
          LET rs == call'.args.random_state
              new == [id |-> "fresh", stream |-> rs.seed, pos |-> 0]
          IN  /\ rs.kind = "int" =>
                    /\ rng' = rng
                    /\ call'.op = "random" =>
                          heap'["new"] = normal(new, heap["X"].shape[1],
                                                call'.args.n_components)
                    /\ call'.op = "random_circular_2d" =>
                          heap'["new"].rows =
                              CircularRows(new, heap["X"].shape[1],
                                           Radius(heap["embedding"]),
                                           call'.args.only_boundary)
              /\ rs.kind = "None" =>
                    rng' = [global |-> rng.global + DrawsOfCall, inst |-> rng.inst]
              /\ rs.kind = "instance" =>
                    rng' = [global |-> rng.global, inst |-> rng.inst + DrawsOfCall]]_vars

\* A state in which a call given None has moved np.random's generator on.
C6_Witness ==
    /\ call.op = "random_circular_2d"
    /\ call.args.random_state.kind = "None"
    /\ heap["X"].shape[1] >= 1
    /\ rng.global >= 2

\* C7: random_circular_2d returns one row of two coordinates per row of X,
\* and with radius the larger of the absolute lower and upper extents, the
\* squared norm of every row is radius^2 when only_boundary and at most
\* radius^2 otherwise.
C7_PointsWithinRadius ==
    call.op = "random_circular_2d"
    => LET out    == heap["new"]
           bounds == heap["embedding"].box_x_lower_bounds
           radius == Max2(Abs(bounds[1]), Abs(bounds[Len(bounds)]))
       IN  /\ out.shape = <<heap["X"].shape[1], 2>>
           /\ Len(out.rows) = heap["X"].shape[1]
           /\ \A i \in DOMAIN out.rows :
                 /\ Len(out.rows[i]) = 2
                 /\ out.rows[i][1].sq >= 0 /\ out.rows[i][2].sq >= 0
                 /\ IF call.args.only_boundary
                    THEN out.rows[i][1].sq + out.rows[i][2].sq = radius * radius * out.sqden
                    ELSE out.rows[i][1].sq + out.rows[i][2].sq <= radius * radius * out.sqden

\* A state in which points were put on the boundary of a disc whose radius is
\* the absolute lower extent.
C7_Witness ==
    /\ call.op = "random_circular_2d"
    /\ call.args.only_boundary
    /\ heap["X"].shape[1] = MaxSamples
    /\ heap["embedding"].box_x_lower_bounds[1] < 0
    /\ heap["new"].rows[1][1].sq + heap["new"].rows[1][2].sq > 0
    /\ heap["new"].rows[1][1].sgn # 0

\* The array rescale leaves: the numerators of v at n / (sqrt(V) * 10000),
\* n and V those of v's first column.
Rescaled(v, out) ==
    /\ out.rows = v.rows
    /\ out.shape = v.shape
    /\ out.scale.mul = Len(v.rows)
    /\ out.scale.den = 10000
    /\ out.scale.rad = IF v.scale.rad = 0 THEN 0 ELSE std0(v).V

\* C8: rescale without inplace leaves x as it was and returns another array
\* holding the scaled values; with inplace it writes them into x, which it
\* returns, and changes nothing else; every other function leaves all of the
\* caller's arrays as they were and, when it returns, returns an array that
\* is none of them.
C8_OnlyInplaceRescaleWrites ==
    [][/\ (call'.op = "rescale" /\ ~call'.args.inplace) =>
              /\ Caller(heap') = Caller(heap)
              /\ ret'.buf = "new"
              /\ Rescaled(heap["x"], heap'["new"])
       /\ (call'.op = "rescale" /\ call'.args.inplace) =>
              /\ \A b \in CallerBufs \ {"x"} : heap'[b] = heap[b]
              /\ ret'.buf = "x"
              /\ DOMAIN heap' = CallerBufs
              /\ Rescaled(heap["x"], heap'["x"])
       /\ call'.op # "rescale" =>
              /\ Caller(heap') = Caller(heap)
              /\ ret'.status = "ok" => (ret'.buf = "new" /\ "new" \in DOMAIN heap')
              /\ ret'.status = "error" => DOMAIN heap' = CallerBufs]_vars

\* A state in which rescale without inplace returned a scaled copy of an x
\* that is still unscaled.
C8_Witness ==
    /\ call.op = "rescale"
    /\ ~call.args.inplace
    /\ ret.buf = "new"
    /\ heap["x"].scale = Unit
    /\ heap["new"].scale.den = 10000
    /\ heap["new"].scale.rad > 0

\* The k-th smallest of a sequence of values.
KthSmallest(vals, k) ==
    CHOOSE v \in Range(vals) :
        /\ Cardinality({j \in DOMAIN vals : vals[j] < v}) < k
        /\ Cardinality({j \in DOMAIN vals : vals[j] <= v}) >= k

\* C9: median returns one row per new point; with one neighbour per point
\* the row is that neighbour's reference row; with several, each coordinate
\* lies between the least and the greatest of the neighbours' coordinates,
\* and is the mean of the two middle ones when their number is even.  (The
\* stored rows are twice the coordinates, over a doubled denominator.)
C9_MedianOfNeighbors ==
    (call.op = "median" /\ ret.status = "ok")
    => LET out == heap["new"]
           embedding == heap["embedding"]
           neighbors == heap["neighbors"]
           m == neighbors.shape[2]
       IN  /\ out.shape = <<neighbors.shape[1], embedding.shape[2]>>
           /\ Len(out.rows) = neighbors.shape[1]
           /\ out.scale = [embedding.scale EXCEPT !.den = 2 * embedding.scale.den]
           /\ \A i \in DOMAIN out.rows : \A c \in 1..embedding.shape[2] :
                 LET vals == [j \in 1..m |-> embedding.rows[neighbors.rows[i][j] + 1][c]]
                 IN  /\ m = 1 => out.rows[i][c] = 2 * vals[1]
                     /\ 2 * MinOf(vals) <= out.rows[i][c]
                     /\ out.rows[i][c] <= 2 * MaxOf(vals)
                     /\ m % 2 = 0 =>
                           out.rows[i][c] = KthSmallest(vals, m \div 2)
                                              + KthSmallest(vals, m \div 2 + 1)

\* A state in which median averaged two different coordinates of two
\* neighbours, for more than one new point.
C9_Witness ==
    /\ call.op = "median"
    /\ ret.status = "ok"
    /\ heap["neighbors"].shape = <<2, 2>>
    /\ heap["new"].rows[1][1] % 2 = 1
    /\ heap["new"].rows[2][1] # heap["new"].rows[1][1]

\* C10: every call of pca, spectral, weighted_mean or median that enters the
\* timer has exited it when it ends, however it ends.
C10_TimerReleased ==
    call.op \in {"pca", "spectral", "weighted_mean", "median"}
    => Count(trace, "enter") = Count(trace, "exit")

====
